---- MODULE Spec2Model ----
(***************************************************************************)
(* Model of the ELL14 rotation-stage driver (src/ELL14.py) and of the      *)
(* polarization optimizer (src/Compensation.py).                           *)
(*                                                                         *)
(* Conventions                                                             *)
(*  - a line of text (a response, a frame) is a sequence of one-character  *)
(*    strings;                                                             *)
(*  - a cached position is an integer number of hundredths of a degree:    *)
(*    the driver only ever stores 0.0 or round(x, 2);                      *)
(*  - an angle handed to the driver is an exact fraction <<n, d>> of a     *)
(*    degree (d > 0); floating-point arithmetic is modelled exactly;       *)
(*  - a QBER sample is an integer number of hundredths (0.01 = 1);         *)
(*  - Python's unbounded int parsed from at most 8 hex digits is kept as   *)
(*    two 16-bit halves [hi, lo] (value hi * 65536 + lo), because the      *)
(*    model checker's integers are 32 bits wide.                           *)
(***************************************************************************)
EXTENDS Integers, Sequences, FiniteSets, TLC

VARIABLES
    ser,                 \* ElliptecController.ser: "none" | "open" | "closed"
    made,                \* made[h]: handle h has been constructed
    address,             \* address[h]: self.address
    position,            \* position[h]: self.position, in hundredths of a degree
    input_buffer,        \* the link's input buffer: lines received and not yet read
    n_waveplates,        \* optimizer: len(self._waveplates)
    max_stepsize_deg,    \* optimizer: self._max_stepsize_deg (degrees)
    threshold,           \* optimizer: self._threshold
    n_stored,            \* optimizer: self._n_stored
    positions,           \* optimizer: self._positions
    current_wp,          \* optimizer: self._current_wp
    current_pos,         \* optimizer: self._current_pos
    origin_position,     \* optimizer: self._origin_position
    qbers,               \* optimizer: self._qbers (index 0 of the array is qbers[1])
    previous_qbers,      \* optimizer: self._previous_qbers
    previous_positions,  \* optimizer: self._previous_positions
    closed,              \* history: close() has been called on handle h
    lastGood,            \* history: last line a home/move/stop of h parsed, or NoLine
    call,                \* history: the most recent call and what it saw
    issued,              \* history: the frames the most recent call wrote to the link
    probe                \* history: the probe cycle under way (see StartProbe)

linkVars == <<ser, made, address, position>>
cfgVars == <<n_waveplates, max_stepsize_deg, threshold, n_stored>>
cdVars == <<current_wp, current_pos, origin_position, qbers>>
rsVars == <<previous_qbers, previous_positions>>
optVars == <<cfgVars, positions, cdVars, rsVars>>
histVars == <<closed, lastGood, call, issued, probe>>
vars == <<linkVars, input_buffer, optVars, histVars>>

-----------------------------------------------------------------------------
(* Program constants *)

pulses_per_turn == 143360
NumWaveplates == 2
MaxStep == 5

Handles == 0 .. (NumWaveplates - 1)

-----------------------------------------------------------------------------
(* Arithmetic helpers *)

Abs(x) == IF x < 0 THEN -x ELSE x

Sign(x) == IF x < 0 THEN -1 ELSE IF x > 0 THEN 1 ELSE 0

\* Python int() of a real n/d (d > 0): truncation toward zero.
Trunc(n, d) == IF n >= 0 THEN n \div d ELSE -((-n) \div d)

-----------------------------------------------------------------------------
(* Text *)

HexChars == <<"0", "1", "2", "3", "4", "5", "6", "7",
              "8", "9", "A", "B", "C", "D", "E", "F">>

IsHex(c) == \E i \in 1 .. 16 : HexChars[i] = c

HexDigit(c) == (CHOOSE i \in 1 .. 16 : HexChars[i] = c) - 1

\* Value of at most four hex digits.
RECURSIVE HexValue(_)
HexValue(s) ==
    IF Len(s) = 0 THEN 0
    ELSE 16 * HexValue(SubSeq(s, 1, Len(s) - 1)) + HexDigit(s[Len(s)])

\* Python s[-8:]
Last8(s) == SubSeq(s, IF Len(s) > 8 THEN Len(s) - 7 ELSE 1, Len(s))

\* int(s, 16) raises ValueError: s is empty or holds a character that is no hex
\* digit (lines of the model hold upper-case letters and digits only).
int16_raises(s) == Len(s) = 0 \/ \E i \in 1 .. Len(s) : ~IsHex(s[i])

\* int(s, 16) for a string of 1 to 8 hex digits, as halves [hi, lo].
int16(s) ==
    IF Len(s) <= 4 THEN [hi |-> 0, lo |-> HexValue(s)]
    ELSE [hi |-> HexValue(SubSeq(s, 1, Len(s) - 4)),
          lo |-> HexValue(SubSeq(s, Len(s) - 3, Len(s)))]

\* The eight hex digits of a value below 16^8 given as halves.
RECURSIVE HexOf(_, _)
HexOf(v, n) ==
    IF n = 0 THEN <<>> ELSE Append(HexOf(v \div 16, n - 1), HexChars[(v % 16) + 1])

\* format(pulses, '08X') without the mask: a negative count comes out as a
\* minus sign and seven digits of its magnitude.
format08X_unmasked(pulses) ==
    IF pulses >= 0
    THEN HexOf(pulses \div 65536, 4) \o HexOf(pulses % 65536, 4)
    ELSE LET m == -(pulses + 1)
             lo == ((m % 65536) + 1) % 65536
             hi == (m \div 65536) + (IF lo = 0 THEN 1 ELSE 0)
         IN  <<"-">> \o HexOf(hi % 4096, 3) \o HexOf(lo, 4)

\* format(pulses & 0xFFFFFFFF, '08X') for a signed 32-bit pulses: the two's
\* complement of a negative p is 0xFFFFFFFF - (-p - 1), taken digit by digit.
format08X(pulses) ==
    IF pulses >= 0
    THEN HexOf(pulses \div 65536, 4) \o HexOf(pulses % 65536, 4)
    ELSE LET m == -(pulses + 1)
         IN  HexOf(65535 - (m \div 65536), 4) \o HexOf(65535 - (m % 65536), 4)

-----------------------------------------------------------------------------
(* Unit conversion: ElliptecController._deg_to_pulses, _pulses_to_deg *)

RECURSIVE GCD(_, _)
GCD(a, b) == IF b = 0 THEN a ELSE GCD(b, a % b)

\* A conversion that takes the angle for a fraction of a half turn.
deg_to_pulses_half_turn(n, d, c) ==
    LET g == GCD(c, 180) IN Trunc(n * (c \div g), d * (180 \div g))

\* _deg_to_pulses when the class attribute pulses_per_turn is c:
\* int(degrees * c / 360), with c / 360 in lowest terms.
deg_to_pulses_at(n, d, c) ==
    LET g == GCD(c, 360) IN Trunc(n * (c \div g), d * (360 \div g))

\* int(degrees * pulses_per_turn / 360) for degrees = n/d; the quotient
\* pulses_per_turn / 360 in lowest terms is 3584 / 9.
deg_to_pulses(n, d) == deg_to_pulses_at(n, d, pulses_per_turn)

\* _pulses_to_deg of a signed pulse count when pulses_per_turn is c:
\* pulses * 360.0 / c, as a fraction of a degree in which 360 / c is in
\* lowest terms.
pulses_to_deg_at(pulses, c) ==
    LET g == GCD(c, 360) IN <<pulses * (360 \div g), c \div g>>

\* A decode that takes 0x80000000 off, clearing the sign bit.
signed_pulses_clearing_sign(raw) ==
    IF raw.hi >= 32768
    THEN (raw.hi - 32768) * 65536 + raw.lo
    ELSE raw.hi * 65536 + raw.lo

\* The signed pulse count _pulses_to_deg converts: raw >= 0x80000000 has
\* 0x100000000 taken off.
signed_pulses(raw) ==
    IF raw.hi >= 32768
    THEN (raw.hi - 65536) * 65536 + raw.lo
    ELSE raw.hi * 65536 + raw.lo

\* round(_pulses_to_deg(raw), 2) in hundredths of a degree:
\* pulses * 360.0 / pulses_per_turn * 100 = pulses * 225 / 896, ties to even.
\* With pulses = 896 * q + r (0 <= r < 896) this is 225 * q + round(225 * r / 896).
pulses_to_deg(raw) ==
    LET p == signed_pulses(raw)
        u == pulses_per_turn \div 160
        q == p \div u
        r == p % u
        k == (225 * r) \div u
        f == (225 * r) % u
        base == 225 * q + k
    IN  IF 2 * f < u THEN base
        ELSE IF 2 * f > u THEN base + 1
        ELSE IF base % 2 = 0 THEN base ELSE base + 1

\* ElliptecController._update_position: the new self.position.
update_position(pos, resp) ==
    LET pos_hex == Last8(resp)
    IN  IF int16_raises(pos_hex) THEN pos ELSE pulses_to_deg(int16(pos_hex))

-----------------------------------------------------------------------------
(* Lines the link can deliver to readline() (after decode and strip) *)

NoLine == <<"none">>

LineEmpty == <<>>
LineStatus == <<"0", "G", "S", "0", "0">>
LineTurn == <<"0", "P", "O", "0", "0", "0", "0", "0", "3", "8", "0">>
LineMinusOne == <<"0", "P", "O", "F", "F", "F", "F", "F", "F", "F", "F">>
LineOther == <<"2", "P", "O", "F", "F", "F", "F", "F", "C", "8", "0">>
LineShortHex == <<"1", "F">>

DriverLines == {LineEmpty, LineStatus, LineTurn, LineMinusOne, LineOther,
                LineShortHex}

\* Addresses the scripts give their two stages.
StageAddresses == {"0", "2"}

\* Angles (fractions of a degree) and pulse counts handed to the move calls.
DriverAngles == {<<-999, 100>>, <<35999, 100>>}
DriverPulses == {896, -1}

-----------------------------------------------------------------------------
(* The driver: ElliptecController *)

\* A frame that always carries the address of the first stage.
frame_to_first_stage(h, cmd) == <<address[0]>> \o cmd \o <<"\r", "\n">>

\* _send_cmd: what is written to the link for cmd.
frame(h, cmd) == <<address[h]>> \o cmd \o <<"\r", "\n">>

\* __init__: open the class-wide link if the class has none yet, purge it,
\* set the position to 0.0. On a link that was closed _purge raises.
Connect(h, a) ==
    /\ ~made[h]
    /\ issued' = <<>>
    /\ IF ser = "closed"
       THEN /\ call' = [op |-> "connect", h |-> h, raised |-> TRUE]
            /\ UNCHANGED <<linkVars, input_buffer, closed, lastGood>>
       ELSE /\ ser' = "open"
            /\ input_buffer' = <<>>
            /\ made' = [made EXCEPT ![h] = TRUE]
            /\ address' = [address EXCEPT ![h] = a]
            /\ position' = [position EXCEPT ![h] = 0]
            /\ lastGood' = [lastGood EXCEPT ![h] = NoLine]
            /\ call' = [op |-> "connect", h |-> h, raised |-> FALSE]
            /\ UNCHANGED closed
    /\ UNCHANGED <<optVars, probe>>

\* The calls whose response carries the stage's position.
PositionCalls == {"home", "move_absolute", "move_relative",
                  "move_absolute_deg", "move_relative_deg", "stop"}

\* A call on a constructed handle, with argument arg, that sends cmd and reads
\* one line; updates says whether the line is handed to _update_position. On a
\* closed link ser.write raises.
Transact(h, op, arg, cmd, resp, updates) ==
    /\ IF ser # "open"
       THEN /\ call' = [op |-> op, h |-> h, arg |-> arg, resp |-> NoLine,
                        before |-> position[h], raised |-> TRUE]
            /\ issued' = <<>>
            /\ UNCHANGED <<position, lastGood>>
       ELSE /\ call' = [op |-> op, h |-> h, arg |-> arg, resp |-> resp,
                        before |-> position[h], raised |-> FALSE]
            /\ issued' = <<frame(h, cmd)>>
            /\ position' = IF updates
                           THEN [position EXCEPT ![h] = update_position(@, resp)]
                           ELSE position
            /\ lastGood' = IF op \in PositionCalls /\ ~int16_raises(Last8(resp))
                           THEN [lastGood EXCEPT ![h] = resp]
                           ELSE lastGood
    /\ UNCHANGED <<ser, made, address, closed, optVars, probe>>

get_info(h, resp) ==
    /\ made[h]
    /\ Transact(h, "get_info", <<>>, <<"i", "n">>, resp, FALSE)
    /\ UNCHANGED input_buffer

\* A get_status that hands the status line to _update_position.
get_status_updating(h, resp) ==
    /\ made[h]
    /\ Transact(h, "get_status", <<>>, <<"g", "s">>, resp, TRUE)
    /\ UNCHANGED input_buffer

get_status(h, resp) ==
    /\ made[h]
    /\ Transact(h, "get_status", <<>>, <<"g", "s">>, resp, FALSE)
    /\ UNCHANGED input_buffer

get_position_deg(h) ==
    /\ made[h]
    /\ call' = [op |-> "get_position_deg", h |-> h, result |-> position[h],
                raised |-> FALSE]
    /\ issued' = <<>>
    /\ UNCHANGED <<linkVars, input_buffer, optVars, closed, lastGood, probe>>

home(h, direction, resp) ==
    /\ made[h]
    /\ Transact(h, "home", direction, <<"h", "o", direction>>, resp, TRUE)
    /\ UNCHANGED input_buffer

move_absolute(h, pulses, resp) ==
    /\ made[h]
    /\ Transact(h, "move_absolute", pulses, <<"m", "a">> \o format08X(pulses), resp, TRUE)
    /\ UNCHANGED input_buffer

move_relative(h, pulses, resp) ==
    /\ made[h]
    /\ Transact(h, "move_relative", pulses, <<"m", "r">> \o format08X(pulses), resp, TRUE)
    /\ UNCHANGED input_buffer

move_absolute_deg(h, deg, resp) ==
    /\ made[h]
    /\ Transact(h, "move_absolute_deg", deg,
                <<"m", "a">> \o format08X(deg_to_pulses(deg[1], deg[2])), resp, TRUE)
    /\ UNCHANGED input_buffer

move_relative_deg(h, deg, resp) ==
    /\ made[h]
    /\ Transact(h, "move_relative_deg", deg,
                <<"m", "r">> \o format08X(deg_to_pulses(deg[1], deg[2])), resp, TRUE)
    /\ UNCHANGED input_buffer

stop(h, resp) ==
    /\ made[h]
    /\ Transact(h, "stop", <<>>, <<"s", "t">>, resp, TRUE)
    /\ UNCHANGED input_buffer

\* close: closes the class-wide link, whichever handle asks.
close(h) ==
    /\ made[h]
    /\ ser' = "closed"
    /\ closed' = [closed EXCEPT ![h] = TRUE]
    /\ call' = [op |-> "close", h |-> h, raised |-> FALSE]
    /\ issued' = <<>>
    /\ UNCHANGED <<made, address, position, input_buffer, lastGood, optVars, probe>>

-----------------------------------------------------------------------------
(* The optimizer as constructed: ContinuousPolarizationOptimizer.__init__ *)

\* The optimizer constructed on a tuple of n stages.
InitOptimizerOn(n, ms, th, ns) ==
    /\ n_waveplates = n
    /\ max_stepsize_deg = ms
    /\ threshold = th
    /\ n_stored = ns
    /\ positions = [i \in 1 .. n |-> 0]
    /\ current_wp = 0
    /\ current_pos = 1
    /\ origin_position = 0
    /\ qbers = <<10, 10, 10>>
    /\ previous_qbers = <<50>>
    /\ previous_positions = <<[i \in 1 .. n |-> 0]>>

\* The optimizer as the scripts construct it, on their two stages.
InitOptimizer(ms, th, ns) == InitOptimizerOn(NumWaveplates, ms, th, ns)

\* get_positions: the cached positions of waveplates 0 and 1.
get_positions(pos) == [i \in 1 .. 2 |-> pos[i - 1]]

\* The measurement loop calls a step only on an open link with both stages
\* connected, and has no handler: a step that raises ends the loop.
LoopRunning ==
    /\ ser = "open"
    /\ \A h \in Handles : made[h]
    /\ ~call.raised

\* What move_absolute_deg / move_relative_deg of stage wp leaves in the driver
\* when the link answers resp.
StageMoved(wp, resp) ==
    /\ position' = [position EXCEPT ![wp] = update_position(@, resp)]
    /\ lastGood' = IF int16_raises(Last8(resp))
                   THEN lastGood
                   ELSE [lastGood EXCEPT ![wp] = resp]

-----------------------------------------------------------------------------
(* Strategy B: coordinate_descent_2nd_order *)

\* A reset to slot 0 instead of slot 1.
ground_state_slot_zero == [wp |-> 0, pos |-> 0]

\* The state a QBER below the threshold resets to.
ground_state_keeping_wp == [wp |-> current_wp, pos |-> 1]

ground_state == [wp |-> 0, pos |-> 1]

\* Numerators of the discrete derivatives of the samples (q_l, q, q_r):
\* dQ_dV = first_difference / (2 * max_stepsize_deg),
\* dQ2_dV2 = second_difference / max_stepsize_deg ** 2.
first_difference(q) == q[3] - q[1]

second_difference(q) == q[3] - 2 * q[2] + q[1]

\* A Newton step without the clamp (for a non-zero dQ2_dV2).
newton_target_unclamped(q, pos) ==
    LET d1 == first_difference(q)
        d2 == second_difference(q)
        n == d1 * max_stepsize_deg * Sign(d2)
        d == 2 * Abs(d2)
    IN  IF d2 = 0 /\ d1 = 0 THEN <<0, 0>>
        ELSE IF d2 = 0 THEN <<pos + Sign(d1) * MaxStep * 100, 100>>
        ELSE IF d2 > 0
             THEN <<pos * d - 100 * n, 100 * d>>
             ELSE <<pos * d + 100 * n, 100 * d>>

\* A Newton step that is subtracted whatever the sign of dQ2_dV2.
newton_target_descending(q, pos) ==
    LET d1 == first_difference(q)
        d2 == second_difference(q)
        n == d1 * max_stepsize_deg * Sign(d2)
        d == 2 * Abs(d2)
    IN  IF d2 = 0 /\ d1 = 0 THEN <<0, 0>>
        ELSE IF d2 = 0 THEN <<pos + Sign(d1) * MaxStep * 100, 100>>
        ELSE IF Abs(n) > MaxStep * d
             THEN <<pos - Sign(n) * MaxStep * 100, 100>>
        ELSE <<pos * d - 100 * n, 100 * d>>

\* The angle the compute phase hands to move_absolute_deg, as a fraction of a
\* degree, for samples q and centre pos (hundredths of a degree); <<0, 0>>
\* stands for NaN. The division by a zero dQ2_dV2 is numpy's: it gives
\* +/-inf (which the clamp turns into +/-5) or, for 0/0, NaN.
newton_target(q, pos) ==
    LET d1 == first_difference(q)
        d2 == second_difference(q)
        \* step = dQ_dV / dQ2_dV2 = n / d degrees, d > 0
        n == d1 * max_stepsize_deg * Sign(d2)
        d == 2 * Abs(d2)
    IN  IF d2 = 0 /\ d1 = 0 THEN <<0, 0>>
        ELSE IF d2 = 0 THEN <<pos + Sign(d1) * MaxStep * 100, 100>>
        ELSE IF Abs(n) > MaxStep * d
             THEN IF d2 > 0
                  THEN <<pos - Sign(n) * MaxStep * 100, 100>>
                  ELSE <<pos + Sign(n) * MaxStep * 100, 100>>
        ELSE IF d2 > 0
             THEN <<pos * d - 100 * n, 100 * d>>
             ELSE <<pos * d + 100 * n, 100 * d>>

\* The angle each phase moves the active stage to.
cd_target(slot, q, pos) ==
    IF slot = 1 THEN <<pos + 100 * max_stepsize_deg, 100>>
    ELSE IF slot = 2 THEN <<pos - 100 * max_stepsize_deg, 100>>
    ELSE newton_target(q, pos)

\* A centre that is always the stage's cached position.
cd_position_cached(wp, slot) == position[wp]

\* The centre of the probe: read from the stage in the centre call, the
\* remembered origin in the other two.
cd_position(wp, slot) == IF slot = 1 THEN position[wp] ELSE origin_position

\* History of the probe cycle: no centre call since construction or since the
\* last threshold reset.
NoProbe == [wp |-> 0, origin |-> 0, vals |-> <<>>]

\* History after a call in slot `slot` on stage wp stored qber: the centre
\* call opens a cycle with the position it read; the other calls add their
\* sample to the cycle under way. vals maps the indices of qbers written in
\* the cycle to the values written.
ProbeAfter(wp, slot, pos, qber) ==
    IF slot = 1
    THEN [wp |-> wp, origin |-> pos, vals |-> (2 :> qber)]
    ELSE [probe EXCEPT !.vals = ((slot + 1) :> qber) @@ @]

\* The phase and stage after a step.
cd_advance(wp, slot) ==
    LET next == (slot + 1) % 3
    IN  [pos |-> next, wp |-> IF next = 1 THEN (wp + 1) % 2 ELSE wp]

coordinate_descent_2nd_order(qber, resp) ==
    /\ LoopRunning
    /\ IF qber < threshold
       THEN /\ current_wp' = ground_state.wp
            /\ current_pos' = ground_state.pos
            /\ call' = [op |-> "coordinate_descent_2nd_order", qber |-> qber,
                        wp |-> current_wp, slot |-> current_pos,
                        moves |-> <<>>, raised |-> FALSE]
            /\ issued' = <<>>
            /\ probe' = NoProbe
            /\ UNCHANGED <<position, lastGood, positions, origin_position, qbers>>
       ELSE LET wp == current_wp
                pos == cd_position(wp, current_pos)
                q == [qbers EXCEPT ![current_pos + 1] = qber]
                target == cd_target(current_pos, q, pos)
            IN  /\ origin_position' = pos
                /\ qbers' = q
                /\ probe' = ProbeAfter(wp, current_pos, position[wp], qber)
                /\ IF target = <<0, 0>>
                   THEN \* int(nan) in _deg_to_pulses raises ValueError
                        /\ call' = [op |-> "coordinate_descent_2nd_order",
                                    qber |-> qber, wp |-> wp, slot |-> current_pos,
                                    moves |-> <<>>, raised |-> TRUE]
                        /\ issued' = <<>>
                        /\ UNCHANGED <<position, lastGood, positions,
                                       current_wp, current_pos>>
                   ELSE /\ call' = [op |-> "coordinate_descent_2nd_order",
                                    qber |-> qber, wp |-> wp, slot |-> current_pos,
                                    moves |-> <<[wp |-> wp, cmd |-> "ma",
                                                 deg |-> target]>>,
                                    raised |-> FALSE]
                        /\ issued' = <<frame(wp, <<"m", "a">> \o
                                   format08X(deg_to_pulses(target[1], target[2])))>>
                        /\ StageMoved(wp, resp)
                        /\ positions' = get_positions(position')
                        /\ current_pos' = cd_advance(wp, current_pos).pos
                        /\ current_wp' = cd_advance(wp, current_pos).wp
    /\ UNCHANGED <<ser, made, address, input_buffer, closed, cfgVars, rsVars>>

-----------------------------------------------------------------------------
(* Strategy A: random_minimizer *)

np_min(s) == CHOOSE m \in {s[i] : i \in 1 .. Len(s)} : \A i \in 1 .. Len(s) : m <= s[i]

\* np.argmin: the first index of the minimum (counted from 1 here).
np_argmin(s) ==
    CHOOSE i \in 1 .. Len(s) : s[i] = np_min(s) /\ \A j \in 1 .. (i - 1) : s[j] # np_min(s)

\* A selection that also takes the current positions on a tie.
select_positions_on_tie(qber, read) ==
    IF qber <= np_min(previous_qbers)
    THEN read
    ELSE previous_positions[np_argmin(previous_qbers)]

\* The value given to self._positions before the move.
select_positions(qber, read) ==
    IF qber < np_min(previous_qbers)
    THEN read
    ELSE previous_positions[np_argmin(previous_qbers)]

\* A buffer that grows without evicting.
stored_without_eviction(buf, x) == Append(buf, x)

\* The buffer after x is recorded.
stored(buf, x) ==
    IF Len(buf) < n_stored THEN Append(buf, x) ELSE Append(Tail(buf), x)

\* delta_phi is drawn from [-max_stepsize_deg, max_stepsize_deg) and wp from
\* {0, 1}; resp is the line the link answers the relative move with.
random_minimizer(qber, delta_phi, wp, resp) ==
    /\ LoopRunning
    /\ LET read == get_positions(position)
       IN  /\ previous_qbers' = stored(previous_qbers, qber)
           /\ previous_positions' = stored(previous_positions, read)
           /\ call' = [op |-> "random_minimizer", qber |-> qber, read |-> read,
                       selected |-> select_positions(qber, read),
                       before_qbers |-> previous_qbers,
                       before_positions |-> previous_positions,
                       moves |-> <<[wp |-> wp, cmd |-> "mr", deg |-> delta_phi]>>,
                       raised |-> FALSE]
    /\ issued' = <<frame(wp, <<"m", "r">> \o
                   format08X(deg_to_pulses(delta_phi[1], delta_phi[2])))>>
    /\ StageMoved(wp, resp)
    /\ positions' = get_positions(position')
    /\ UNCHANGED <<ser, made, address, input_buffer, closed, cfgVars, cdVars, probe>>

\* The amplitudes np.random.uniform(-ms, ms) is let to draw, as fractions.
Amplitudes(ms) == {<<-ms, 1>>, <<ms, 2>>}

-----------------------------------------------------------------------------
(* The measurement loop: both stages connected as the scripts do, then steps. *)

OptLines == {LineEmpty, LineTurn, LineOther}

InitStages(a0, a1) ==
    /\ ser = "open"
    /\ made = [h \in Handles |-> TRUE]
    /\ address = [h \in Handles |-> IF h = 0 THEN a0 ELSE a1]
    /\ position = [h \in Handles |-> 0]
    /\ input_buffer = <<>>
    /\ closed = [h \in Handles |-> FALSE]
    /\ lastGood = [h \in Handles |-> NoLine]
    /\ call = [op |-> "none", h |-> 0, raised |-> FALSE]
    /\ issued = <<>>
    /\ probe = NoProbe

\* QBER samples, in hundredths: one below the threshold, and samples whose
\* second difference is zero, positive and negative.
CDQbers == {0, 25, 50, 75, 76}

InitCD ==
    /\ InitStages("0", "2")
    /\ \E ms \in {2, 3} : InitOptimizer(ms, 1, 1)

NextCD == \E qber \in CDQbers, resp \in OptLines : coordinate_descent_2nd_order(qber, resp)

SpecCD == InitCD /\ [][NextCD]_vars

\* Coordinate descent on a tuple of two or of three stages, every QBER at or
\* above the threshold. The code reaches only the first two stages of the
\* tuple (get_positions, and current_wp taken modulo 2), so the driver state
\* of a third stage is never read or written and is left out.
StageCounts == {2, 3}

RoundQbers == {25, 50, 76}

InitRound ==
    /\ InitStages("0", "2")
    /\ \E n \in StageCounts : InitOptimizerOn(n, 3, 1, 1)

NextRound ==
    \E qber \in RoundQbers, resp \in {LineEmpty, LineTurn} :
        coordinate_descent_2nd_order(qber, resp)

SpecRound == InitRound /\ [][NextRound]_vars

\* QBER samples around the 0.5 the buffer starts with: lower, equal, higher.
RSQbers == {40, 50, 60}

\* Buffer capacities the loop is run with.
MaxStored == 3

InitRS ==
    /\ InitStages("0", "2")
    /\ \E ns \in 1 .. MaxStored : InitOptimizer(2, 1, ns)

RSLines == {LineEmpty, LineTurn}

NextRS ==
    \E qber \in RSQbers, wp \in {0, 1}, resp \in RSLines :
        \E delta_phi \in Amplitudes(max_stepsize_deg) :
            random_minimizer(qber, delta_phi, wp, resp)

SpecRS == InitRS /\ [][NextRS]_vars

\* Configurations the constructors are handed, valid and not: the optimizer's
\* max_stepsize_deg and n_stored, and the address of the first stage.
CfgStepsizes == {-1, 0, 2}
CfgStored == {-1, 0, 1}
CfgAddresses == {"0", "G"}

InitCfg ==
    /\ \E a \in CfgAddresses : InitStages(a, "2")
    /\ \E ms \in CfgStepsizes, ns \in CfgStored : InitOptimizer(ms, 1, ns)

NextCfg ==
    \/ \E qber \in RSQbers, wp \in {0, 1}, resp \in RSLines :
           \E delta_phi \in Amplitudes(max_stepsize_deg) :
               random_minimizer(qber, delta_phi, wp, resp)
    \/ \E h \in Handles, resp \in RSLines : home(h, "0", resp)

SpecCfg == InitCfg /\ [][NextCfg]_vars

-----------------------------------------------------------------------------
(* The driver on its own: handles are connected, used and closed in any order,
   and the link delivers any line. *)

InitDriver ==
    /\ ser = "none"
    /\ made = [h \in Handles |-> FALSE]
    /\ address = [h \in Handles |-> "0"]
    /\ position = [h \in Handles |-> 0]
    /\ input_buffer = <<>>
    /\ closed = [h \in Handles |-> FALSE]
    /\ lastGood = [h \in Handles |-> NoLine]
    /\ call = [op |-> "none", h |-> 0, raised |-> FALSE]
    /\ issued = <<>>
    /\ probe = NoProbe
    /\ InitOptimizer(2, 1, 1)

NextDriver ==
    \E h \in Handles :
        \/ \E a \in StageAddresses : Connect(h, a)
        \/ get_position_deg(h)
        \/ close(h)
        \/ \E resp \in DriverLines :
            \/ get_info(h, resp)
            \/ get_status(h, resp)
            \/ \E d \in {"0", "1"} : home(h, d, resp)
            \/ \E p \in DriverPulses : move_absolute(h, p, resp)
            \/ \E p \in DriverPulses : move_relative(h, p, resp)
            \/ \E deg \in DriverAngles : move_absolute_deg(h, deg, resp)
            \/ \E deg \in DriverAngles : move_relative_deg(h, deg, resp)
            \/ stop(h, resp)

SpecDriver == InitDriver /\ [][NextDriver]_vars

-----------------------------------------------------------------------------
(* The conversions on their own: both stages connected, moves by angle and by
   pulse count over the signed 32-bit range, responses over the raw 32-bit
   range, and the degree -> pulse -> degree round trip for several values of
   the class attribute pulses_per_turn. *)

LineMaxPositive == <<"0", "P", "O", "7", "F", "F", "F", "F", "F", "F", "F">>
LineMinNegative == <<"0", "P", "O", "8", "0", "0", "0", "0", "0", "0", "0">>
\* 448 pulses are 1.125 degrees, a tie for round(., 2).
LineTie == <<"0", "P", "O", "0", "0", "0", "0", "0", "1", "C", "0">>

ConvLines == {LineEmpty, LineMinusOne, LineMaxPositive, LineMinNegative,
              LineTie}

ConvAngles == {<<3, 1>>, <<-3, 1>>, <<-999, 100>>, <<35999, 100>>}

ConvPulses == {0, 896, -1, 2147483647, -2147483647 - 1}

\* Values of pulses_per_turn: the ELL14's, and others a stage may be given.
Calibrations == {pulses_per_turn, 51200, 7}

\* _pulses_to_deg(_deg_to_pulses(deg)) with pulses_per_turn = c.
round_trip(deg, c) ==
    /\ LET pulses == deg_to_pulses_at(deg[1], deg[2], c)
       IN  call' = [op |-> "round_trip", h |-> 0, arg |-> deg, c |-> c,
                    pulses |-> pulses, result |-> pulses_to_deg_at(pulses, c),
                    raised |-> FALSE]
    /\ issued' = <<>>
    /\ UNCHANGED <<linkVars, input_buffer, optVars, closed, lastGood, probe>>

InitConv ==
    /\ InitStages("0", "2")
    /\ InitOptimizer(2, 1, 1)

NextConv ==
    \/ \E deg \in ConvAngles, c \in Calibrations : round_trip(deg, c)
    \/ \E h \in Handles, resp \in ConvLines :
        \/ \E pulses \in ConvPulses : move_absolute(h, pulses, resp)
        \/ \E pulses \in ConvPulses : move_relative(h, pulses, resp)
        \/ \E deg \in ConvAngles : move_absolute_deg(h, deg, resp)
        \/ \E deg \in ConvAngles : move_relative_deg(h, deg, resp)

SpecConv == InitConv /\ [][NextConv]_vars

-----------------------------------------------------------------------------
(* The shared link with its two stages. Each stage answers a command with one
   line that begins with its own address. The answer reaches the input buffer
   either before readline() times out (2 s) or after; an answer that came
   late stays in the buffer, which is purged only by __init__, and is what
   the next readline() on the link returns. *)

\* The line the stage at address a answers cmd with: its address, "PO" and
\* the position it reached, the commanded pulses for "ma" and 0 for "ho".
device_reply(a, cmd) ==
    <<a, "P", "O">> \o (IF cmd[1] = "m" THEN SubSeq(cmd, 3, 10) ELSE HexOf(0, 8))

\* ser.readline() after a command whose answer is reply: the line returned
\* and the buffer left behind. A line already buffered is returned first; on
\* an empty buffer the answer is returned if it is timely, and otherwise the
\* read times out with an empty line and the answer arrives afterwards.
readline(reply, timely) ==
    IF input_buffer # <<>>
    THEN [resp |-> Head(input_buffer), rest |-> Append(Tail(input_buffer), reply)]
    ELSE IF timely
         THEN [resp |-> reply, rest |-> <<>>]
         ELSE [resp |-> <<>>, rest |-> <<reply>>]

\* A position call of handle h on the shared link.
TransactOnLink(h, op, arg, cmd, timely) ==
    LET r == readline(device_reply(address[h], cmd), timely)
    IN  /\ Transact(h, op, arg, cmd, r.resp, TRUE)
        /\ input_buffer' = IF ser = "open" THEN r.rest ELSE input_buffer

home_on_link(h, direction, timely) ==
    /\ made[h]
    /\ TransactOnLink(h, "home", direction, <<"h", "o", direction>>, timely)

move_absolute_on_link(h, pulses, timely) ==
    /\ made[h]
    /\ TransactOnLink(h, "move_absolute", pulses,
                      <<"m", "a">> \o format08X(pulses), timely)

InitLink ==
    /\ InitStages("0", "2")
    /\ InitOptimizer(2, 1, 1)

NextLink ==
    \E h \in Handles, timely \in BOOLEAN :
        \/ \E direction \in {"0", "1"} : home_on_link(h, direction, timely)
        \/ \E pulses \in DriverPulses : move_absolute_on_link(h, pulses, timely)

SpecLink == InitLink /\ [][NextLink]_vars

-----------------------------------------------------------------------------
(* Claims about the driver, checked under SpecDriver *)

\* The response ends in a position field of exactly 8 hexadecimal digits.
EndsIn8Hex(line) ==
    /\ Len(line) >= 8
    /\ \A i \in (Len(line) - 7) .. Len(line) : IsHex(line[i])

\* C1: after home, move_absolute_deg, move_relative_deg or stop has read a
\* response that does not end in 8 hexadecimal digits, the handle's cached
\* position is what it was before the call, and the call has not raised.
C1_UnparsableResponseKeepsPosition ==
    ( /\ call.op \in {"home", "move_absolute_deg", "move_relative_deg", "stop"}
      /\ call.resp # NoLine
      /\ ~EndsIn8Hex(call.resp) )
    => (position[call.h] = call.before /\ ~call.raised)

\* C2: the cached position of every handle is the value decoded from the most
\* recent response one of its home/move/stop calls parsed, and 0.0 when there
\* has been none.
C2_PositionIsLastReported ==
    \A h \in Handles :
        made[h] =>
            position[h] = IF lastGood[h] = NoLine
                          THEN 0
                          ELSE pulses_to_deg(int16(Last8(lastGood[h])))

\* C2 witness: an absolute move to 359.99 degrees got an unparsable answer and
\* the handle still holds the 2.25 degrees the stage reported earlier.
C2_Witness ==
    /\ call.op = "move_absolute_deg"
    /\ ~call.raised
    /\ call.resp = LineStatus
    /\ issued = <<frame(call.h, <<"m", "a", "0", "0", "0", "2", "2", "F", "F", "C">>)>>
    /\ lastGood[call.h] = LineTurn
    /\ position[call.h] = 225

\* C10: while a handle that has not been closed exists, the link is open.
C10_LinkOutlivesClose ==
    (\E h \in Handles : made[h] /\ ~closed[h]) => ser = "open"

-----------------------------------------------------------------------------
(* Claims about the conversions, checked under SpecConv *)

\* round(n / d) for d > 0: the nearest integer, a tie going to the even one.
RoundHalfEven(n, d) ==
    LET q == n \div d
        r == n % d
    IN  IF 2 * r < d THEN q
        ELSE IF 2 * r > d THEN q + 1
        ELSE IF q % 2 = 0 THEN q ELSE q + 1

\* The payload of a move frame: the 8 characters after the address and the
\* two-letter opcode.
Payload(f) == SubSeq(f, 4, 11)

\* The value of 8 hex digits, given as halves, read as 32-bit two's
\* complement: r below 2^31, and r - 2^32 = (r - 2^31) - 2^31 from 2^31 on.
TwosComplement32(raw) ==
    IF raw.hi < 32768
    THEN raw.hi * 65536 + raw.lo
    ELSE ((raw.hi - 32768) * 65536 + raw.lo) - 2147483647 - 1

MoveDegCalls == {"move_absolute_deg", "move_relative_deg"}
MovePulseCalls == {"move_absolute", "move_relative"}

\* C11: the pulse count move_absolute_deg and move_relative_deg send for an
\* angle is the integer nearest to angle * pulses_per_turn / 360.
C11_DegreesRoundToNearestPulse ==
    (call.op \in MoveDegCalls /\ ~call.raised)
    => /\ Len(issued) = 1
       /\ TwosComplement32(int16(Payload(issued[1])))
              = RoundHalfEven(call.arg[1] * (pulses_per_turn \div 40),
                              call.arg[2] * (360 \div 40))

\* C12: for every angle and every value c of pulses_per_turn, the angle
\* converted to pulses and back to degrees differs from the angle by at most
\* 360 / c degrees.
C12_RoundTripWithinOneStep ==
    call.op = "round_trip"
    => LET n == call.arg[1]
           d == call.arg[2]
           rn == call.result[1]
           rd == call.result[2]
           \* the result has 360 / c in lowest terms: c = rd * g
           g == call.c \div rd
       IN  /\ rd > 0
           /\ rd * g = call.c
           /\ Abs(rn * d - n * rd) <= (360 * d) \div g

\* C12 witness: 3 degrees at 143360 pulses per turn became 1194 pulses and
\* came back as 1194 * 9 / 3584 degrees, which is not 3 degrees.
C12_Witness ==
    /\ call.op = "round_trip"
    /\ call.arg = <<3, 1>>
    /\ call.c = pulses_per_turn
    /\ call.pulses = 1194
    /\ call.result = <<10746, 3584>>

\* The offset, in hundredths of a degree, of position pos from the whole
\* multiples of 2.25 degrees below pulse count p = 896 * q + r, and the
\* remainder r.
PositionOffset(pos, p) == pos - 225 * (p \div 896)
PulseRemainder(p) == p % 896

\* C13 as stated: a move call that read a response ending in 8 hex digits has
\* left the cached position at exactly the two's-complement value of those
\* digits times 360 / pulses_per_turn (= 225 / 896 hundredths per pulse).
C13_PositionIsDecodedPulsesExactly ==
    (call.op \in MovePulseCalls \cup MoveDegCalls /\ ~call.raised
        /\ EndsIn8Hex(call.resp))
    => LET p == TwosComplement32(int16(Last8(call.resp)))
       IN  PositionOffset(position[call.h], p) * 896 = 225 * PulseRemainder(p)

\* C13: a move call that read a response ending in 8 hex digits has left the
\* cached position at the two's-complement value of those digits (r below
\* 2^31, r - 2^32 from 2^31 on) times 360 / pulses_per_turn, rounded to two
\* decimals with a tie going to the even hundredth.
C13_PositionIsDecodedPulsesRounded ==
    (call.op \in MovePulseCalls \cup MoveDegCalls /\ ~call.raised
        /\ EndsIn8Hex(call.resp))
    => LET p == TwosComplement32(int16(Last8(call.resp)))
           k == PositionOffset(position[call.h], p)
           e == k * 896 - 225 * PulseRemainder(p)
       IN  /\ k \in 0 .. 225
           /\ 2 * Abs(e) <= 896
           /\ 2 * Abs(e) = 896 => position[call.h] % 2 = 0

\* C13 witness: FFFFFFFF was decoded as -1 pulse and the position is -0.0, and
\* the other handle holds the 1.12 degrees that 448 pulses (1.125) round to.
C13_Witness ==
    /\ call.op \in MovePulseCalls \cup MoveDegCalls
    /\ ~call.raised
    /\ call.resp = LineMinusOne
    /\ TwosComplement32(int16(Last8(call.resp))) = -1
    /\ position[call.h] = 0
    /\ position[1 - call.h] = 112
    /\ lastGood[1 - call.h] = LineTie

\* C14: the frame of move_absolute / move_relative for a pulse count p in
\* [-2^31, 2^31) is the handle's address, "ma" or "mr", 8 hex digits and the
\* CR LF terminator; the digits have the value p mod 2^32, most significant
\* first, and read as two's complement they give p. The frames of
\* move_absolute_deg / move_relative_deg carry the converted pulse count.
C14_MoveFrameCarriesTwosComplement ==
    (call.op \in MovePulseCalls \cup MoveDegCalls /\ ~call.raised)
    => LET p == IF call.op \in MovePulseCalls
                THEN call.arg
                ELSE deg_to_pulses(call.arg[1], call.arg[2])
           f == issued[1]
       IN  /\ Len(issued) = 1
           /\ Len(f) = 13
           /\ f[1] = address[call.h]
           /\ SubSeq(f, 2, 3) = IF call.op \in {"move_absolute", "move_absolute_deg"}
                                THEN <<"m", "a">> ELSE <<"m", "r">>
           /\ \A i \in 4 .. 11 : IsHex(f[i])
           /\ int16(Payload(f)) = [hi |-> (p \div 65536) % 65536, lo |-> p % 65536]
           /\ TwosComplement32(int16(Payload(f))) = p
           /\ SubSeq(f, 12, 13) = <<"\r", "\n">>

\* C14 witness: a relative move by -2^31 pulses on the stage at address "2"
\* wrote 2mr80000000.
C14_Witness ==
    /\ call.op = "move_relative"
    /\ ~call.raised
    /\ call.arg = -2147483647 - 1
    /\ address[call.h] = "2"
    /\ issued = << <<"2", "m", "r", "8", "0", "0", "0", "0", "0", "0", "0",
                     "\r", "\n">> >>

-----------------------------------------------------------------------------
(* Claims about coordinate descent, checked under SpecCD *)

\* C3: a compute-phase call whose samples have a zero second derivative issues
\* no move command.
C3_ZeroCurvatureIssuesNoMove ==
    ( /\ call.op = "coordinate_descent_2nd_order"
      /\ call.qber >= threshold
      /\ call.slot = 0
      /\ second_difference(qbers) = 0 )
    => issued = <<>>

\* C4: a coordinate-descent call returns without raising, and when the QBER
\* is not below the threshold the probe slot has advanced by one.
C4_StepNeverStopsLoop ==
    call.op = "coordinate_descent_2nd_order"
    => /\ ~call.raised
       /\ call.qber >= threshold => current_pos = (call.slot + 1) % 3

\* C5: a call with a QBER below the threshold issues no move command and
\* leaves the optimizer at stage 0, phase center (slot 1), whatever stage and
\* slot it was called in.
C5_BelowThresholdResets ==
    (call.op = "coordinate_descent_2nd_order" /\ call.qber < threshold)
    => /\ issued = <<>>
       /\ call.moves = <<>>
       /\ current_wp = 0
       /\ current_pos = 1

\* C5 witness: the reset happened mid-cycle on the second stage.
C5_Witness ==
    /\ call.op = "coordinate_descent_2nd_order"
    /\ call.qber < threshold
    /\ call.wp = 1
    /\ call.slot = 2
    /\ issued = <<>>
    /\ current_wp = 0
    /\ current_pos = 1

\* A call that stored its sample and went on to the probe or compute phase.
StepCall == call.op = "coordinate_descent_2nd_order" /\ call.qber >= threshold

\* The call that computes the Newton step: it found the optimizer in slot 0.
ComputeCall == StepCall /\ call.slot = 0

\* A fraction n / d (d > 0) in lowest terms.
Lowest(n, d) == LET g == GCD(Abs(n), d) IN <<n \div g, d \div g>>

\* Numerators of dQ/dV and d2Q/dV2 for the samples (q_l, q, q_r) the call
\* left in the buffer: (q_r - q_l) / (2 ms) and (q_r - 2 q + q_l) / ms^2.
SlopeOfSamples == qbers[3] - qbers[1]
CurvatureOfSamples == (qbers[3] - 2 * qbers[2]) + qbers[1]

\* dQ/dV divided by d2Q/dV2 (for a non-zero d2Q/dV2), clamped to magnitude 5
\* with its sign kept, in lowest terms.
ClampedQuotient ==
    LET n == SlopeOfSamples * max_stepsize_deg * Sign(CurvatureOfSamples)
        d == 2 * Abs(CurvatureOfSamples)
    IN  IF Abs(n) <= 5 * d THEN Lowest(n, d) ELSE <<5 * Sign(n), 1>>

\* The angle the call commanded minus a centre c (hundredths of a degree), in
\* degrees and lowest terms.
CommandedOffset(c) ==
    LET t == call.moves[1].deg
    IN  Lowest(100 * t[1] - c * t[2], 100 * t[2])

\* C15: in a compute call with a non-zero second derivative the commanded
\* target is origin_position with the step applied, where the step is
\* dQ/dV / d2Q/dV2 when that is at most 5 in magnitude and otherwise 5 with
\* the quotient's sign; the target is never more than 5 degrees from
\* origin_position.
C15_StepIsClampedQuotient ==
    (ComputeCall /\ CurvatureOfSamples # 0)
    => /\ Len(call.moves) = 1
       /\ LET off == CommandedOffset(origin_position)
              step == IF CurvatureOfSamples > 0 THEN <<-off[1], off[2]>> ELSE off
          IN  /\ step = ClampedQuotient
              /\ Abs(off[1]) <= 5 * off[2]

\* C15 witness: the samples (0.25, 0.76, 0.75) with max_stepsize_deg = 3 give
\* the quotient 0.5 * 3 / (2 * -0.52) = -1.44..., applied unclamped, and the
\* samples (0.25, 0.5, 0.76) give 0.51 * 3 / (2 * 0.01) = 76.5, clamped to 5.
C15_Witness ==
    /\ ComputeCall
    /\ Len(call.moves) = 1
    /\ max_stepsize_deg = 3
    /\ qbers = <<25, 50, 76>>
    /\ ClampedQuotient = <<5, 1>>
    /\ CommandedOffset(origin_position) = <<-5, 1>>

\* C16: a coordinate-descent call writes at most one frame, a move addressed
\* to the stage that was active when the call began and to no other stage; a
\* call that starts the plus or the minus probe writes exactly one.
C16_AtMostOneMoveToActiveStage ==
    call.op = "coordinate_descent_2nd_order"
    => /\ Len(issued) <= 1
       /\ Len(call.moves) = Len(issued)
       /\ \A k \in 1 .. Len(issued) :
              /\ issued[k][1] = address[call.wp]
              /\ \A h \in Handles \ {call.wp} : issued[k][1] # address[h]
              /\ SubSeq(issued[k], 2, 3) = <<"m", "a">>
              /\ call.moves[k].wp = call.wp
       /\ (StepCall /\ call.slot \in {1, 2}) => Len(issued) = 1

\* C16 witness: the compute call on the second stage moved that stage, and
\* nothing else.
C16_Witness ==
    /\ ComputeCall
    /\ call.wp = 1
    /\ Len(issued) = 1
    /\ issued[1][1] = "2"
    /\ address[0] = "0"

\* C17 (checked under SpecRound): with n_waveplates stages given to the
\* optimizer and every QBER at or above the threshold, the compute call that
\* completes the three-call cycle on stage i leaves stage (i + 1) mod
\* n_waveplates active.
C17_RoundRobinOverAllStages ==
    (ComputeCall /\ ~call.raised)
    => /\ current_pos = 1
       /\ current_wp = (call.wp + 1) % n_waveplates

\* C18: a call with a QBER at or above the threshold leaves the probe slot
\* one further in the cycle 1 -> 2 -> 0 -> 1, and the active stage is
\* another one only when the slot is back at 1 (center).
C18_SlotAdvancesByOne ==
    StepCall
    => /\ current_pos = (call.slot + 1) % 3
       /\ current_wp # call.wp => current_pos = 1

\* C19: when the Newton step is computed, the three entries of the sample
\* buffer are the ones written since the most recent centre call, which was
\* made on the active stage after any threshold reset, and origin_position is
\* the position that centre call read.
C19_ComputeUsesCurrentCycle ==
    ComputeCall
    => /\ DOMAIN probe.vals = {1, 2, 3}
       /\ \A i \in 1 .. 3 : qbers[i] = probe.vals[i]
       /\ probe.wp = call.wp
       /\ origin_position = probe.origin

\* C19 witness: a Newton step computed on the second stage, from a cycle
\* whose centre call found the stage at 2.25 degrees, while the buffer's
\* initial contents (0.1) are gone.
C19_Witness ==
    /\ ComputeCall
    /\ ~call.raised
    /\ call.wp = 1
    /\ probe.wp = 1
    /\ probe.origin = 225
    /\ origin_position = 225
    /\ qbers = <<25, 50, 76>>
    /\ position[1] # 225

\* C20: in a compute call with a non-zero second derivative the active stage
\* is commanded to the position its centre call read minus the clamped
\* quotient when the second derivative is positive, and plus the clamped
\* quotient when it is negative.
C20_TargetIsOriginMinusOrPlusStep ==
    (ComputeCall /\ CurvatureOfSamples # 0)
    => /\ Len(call.moves) = 1
       /\ call.moves[1].wp = call.wp
       /\ LET off == CommandedOffset(probe.origin)
              step == ClampedQuotient
          IN  IF CurvatureOfSamples > 0
              THEN off = <<-step[1], step[2]>>
              ELSE off = step

\* C20 witness: with negative curvature, samples (0.25, 0.76, 0.75), the stage
\* whose centre call read -2.25 degrees, and which has since reported 2.25,
\* was commanded to -2.25 + step.
C20_Witness ==
    /\ ComputeCall
    /\ CurvatureOfSamples < 0
    /\ qbers = <<25, 76, 75>>
    /\ probe.origin = -225
    /\ call.moves # <<>>
    /\ CommandedOffset(-225) = ClampedQuotient
    /\ ClampedQuotient[1] # 0
    /\ position[call.wp] = 225

-----------------------------------------------------------------------------
(* Claims about random search, checked under SpecRS *)

\* The least QBER of a buffer, and the position vector stored with it.
LeastStored(qs) == CHOOSE i \in 1 .. Len(qs) :
                       /\ \A j \in 1 .. Len(qs) : qs[i] <= qs[j]
                       /\ \A j \in 1 .. (i - 1) : qs[j] > qs[i]

\* C6: in a step whose QBER is not strictly below the least stored QBER,
\* every stage that is not at the position stored with that least QBER is
\* sent an absolute move to it.
C6_RevertMovesStagesBack ==
    ( /\ call.op = "random_minimizer"
      /\ \E j \in 1 .. Len(call.before_qbers) : call.before_qbers[j] <= call.qber )
    => LET best == call.before_positions[LeastStored(call.before_qbers)]
       IN  \A i \in 1 .. NumWaveplates :
               \/ call.read[i] = best[i]
               \/ \E k \in 1 .. Len(call.moves) :
                      /\ call.moves[k].wp = i - 1
                      /\ call.moves[k].cmd = "ma"
                      /\ call.moves[k].deg = <<best[i], 100>>

\* C7: the operating point a step selects is the positions it read exactly
\* when its QBER is strictly below every stored QBER; on a tie or a higher
\* QBER it is the position vector stored with the least QBER.
C7_StrictlyLowerSelectsCurrent ==
    call.op = "random_minimizer"
    => IF \A j \in 1 .. Len(call.before_qbers) : call.qber < call.before_qbers[j]
       THEN call.selected = call.read
       ELSE call.selected = call.before_positions[LeastStored(call.before_qbers)]

\* C7 witness: a QBER equal to the stored minimum arrived while the stages
\* stood elsewhere than the stored best, and the stored best was selected.
C7_Witness ==
    /\ call.op = "random_minimizer"
    /\ \E j \in 1 .. Len(call.before_qbers) : call.before_qbers[j] = call.qber
    /\ \A j \in 1 .. Len(call.before_qbers) : call.before_qbers[j] >= call.qber
    /\ call.selected # call.read
    /\ call.selected = call.before_positions[LeastStored(call.before_qbers)]

\* C8: the two buffers have one length, at most n_stored; a step on a full
\* buffer drops the oldest entry and appends (qber, positions read), a step on
\* a buffer below capacity only appends.
C8_RingBuffer ==
    /\ Len(previous_qbers) = Len(previous_positions)
    /\ Len(previous_qbers) <= n_stored
    /\ call.op = "random_minimizer"
       => IF Len(call.before_qbers) = n_stored
          THEN /\ previous_qbers = Tail(call.before_qbers) \o <<call.qber>>
               /\ previous_positions = Tail(call.before_positions) \o <<call.read>>
          ELSE /\ previous_qbers = call.before_qbers \o <<call.qber>>
               /\ previous_positions = call.before_positions \o <<call.read>>

\* C8 witness: with n_stored = 3 the fourth entry has pushed out the 0.5 the
\* buffer started with.
C8_Witness ==
    /\ n_stored = 3
    /\ call.op = "random_minimizer"
    /\ call.before_qbers = <<50, 40, 60>>
    /\ previous_qbers = <<40, 60, 50>>
    /\ Len(previous_positions) = 3
    /\ previous_positions[3] = call.read

-----------------------------------------------------------------------------
(* Claim about configuration, checked under SpecCfg *)

\* C9: with a non-positive max_stepsize_deg or n_stored, or a stage address
\* that is no hex digit, no step has been taken and no frame has been written.
C9_InvalidConfigurationRejected ==
    ( \/ max_stepsize_deg <= 0
      \/ n_stored <= 0
      \/ \E h \in Handles : made[h] /\ ~IsHex(address[h]) )
    => (call.op = "none" /\ issued = <<>>)

-----------------------------------------------------------------------------
(* Claim about the shared link, checked under SpecLink *)

\* C21: on the link shared by the two handles, where an answer may arrive
\* after its command timed out and be read by the next command, a call that
\* changed its handle's cached position took the new position from a line
\* sent by the stage at that handle's own address.
C21_PositionOnlyFromOwnDevice ==
    ( /\ call.op \in PositionCalls
      /\ ~call.raised
      /\ position[call.h] # call.before )
    => call.resp[1] = address[call.h]

====
